---- MODULE Spec2Model ----
(***************************************************************************)
(* Model of streamlit_app.py: the example-plan relevance scorer            *)
(* (find_relevant_examples), the rows it reads (example_plans, patients)   *)
(* and the form handlers that write those rows; and the Streamlit script   *)
(* of one browser session: the session state, the patient selector and     *)
(* the button handlers, over the patients, lab_values and diet_plans       *)
(* tables.                                                                 *)
(*                                                                         *)
(* Text is modelled as a sequence of one-character strings, so that        *)
(* str.lower, str.strip, str.split and the substring test `k in s` are     *)
(* computed character by character, as Python computes them.               *)
(* Weights are in tenths of a kilogram, heights in whole centimetres and   *)
(* BMI values in hundredths (calculate_bmi rounds to two decimals).        *)
(***************************************************************************)
EXTENDS Integers, Sequences, FiniteSets, TLC

\* ------------------------------------------------------------------------
\* Bounds of the model
\* ------------------------------------------------------------------------
\* number of example plans ever saved (ids 1..MaxExamples)
MaxExamples == 2
\* largest result limit top_k passed to find_relevant_examples
MaxTopK == 2
\* number of patients ever created (ids 1..MaxPatients)
MaxPatients == 2
\* number of diet plans ever generated (ids 1..MaxPlans)
MaxPlans == 1

\* ------------------------------------------------------------------------
\* Python str operations
\* ------------------------------------------------------------------------
UpperCase ==
  <<"A", "B", "C", "D", "E", "F", "G", "H", "I", "J", "K", "L", "M",
    "N", "O", "P", "Q", "R", "S", "T", "U", "V", "W", "X", "Y", "Z">>

LowerCase ==
  <<"a", "b", "c", "d", "e", "f", "g", "h", "i", "j", "k", "l", "m",
    "n", "o", "p", "q", "r", "s", "t", "u", "v", "w", "x", "y", "z">>

Whitespace == {" ", "\t", "\n"}

UpperChars == {UpperCase[i] : i \in 1..Len(UpperCase)}

LowerChar(c) ==
  IF c \in UpperChars
  THEN LowerCase[CHOOSE i \in 1..Len(UpperCase) : UpperCase[i] = c]
  ELSE c

\* str.lower()
Lower(s) == [i \in 1..Len(s) |-> LowerChar(s[i])]

\* str.strip(): drop leading and trailing whitespace
Strip(s) ==
  LET keep == {i \in 1..Len(s) : s[i] \notin Whitespace}
  IN  IF keep = {} THEN <<>>
      ELSE LET first == CHOOSE i \in keep : \A j \in keep : i <= j
               last  == CHOOSE i \in keep : \A j \in keep : j <= i
           IN  SubSeq(s, first, last)

\* str.split(','): the pieces between separators, empty pieces included
RECURSIVE SplitOn(_, _)
SplitOn(s, sep) ==
  LET hits == {i \in 1..Len(s) : s[i] = sep}
  IN  IF hits = {} THEN <<s>>
      ELSE LET p == CHOOSE i \in hits : \A j \in hits : i <= j
           IN  <<SubSeq(s, 1, p - 1)>> \o SplitOn(SubSeq(s, p + 1, Len(s)), sep)

\* str.split(): maximal runs of non-whitespace characters
RECURSIVE SplitWhitespace(_)
SplitWhitespace(s) ==
  LET word == {i \in 1..Len(s) : s[i] \notin Whitespace}
  IN  IF word = {} THEN <<>>
      ELSE LET b    == CHOOSE i \in word : \A j \in word : i <= j
               gaps == {i \in b..Len(s) : s[i] \in Whitespace}
               e    == IF gaps = {} THEN Len(s)
                       ELSE (CHOOSE i \in gaps : \A j \in gaps : i <= j) - 1
           IN  <<SubSeq(s, b, e)>> \o SplitWhitespace(SubSeq(s, e + 1, Len(s)))

\* the Python test `k in s` on two strings
IsSubstring(k, s) ==
  \E i \in 0..(Len(s) - Len(k)) : SubSeq(s, i + 1, i + Len(k)) = k

\* list slice seq[:n]
Take(seq, n) ==
  IF n >= 0
  THEN SubSeq(seq, 1, IF n < Len(seq) THEN n ELSE Len(seq))
  ELSE SubSeq(seq, 1, IF Len(seq) + n > 0 THEN Len(seq) + n ELSE 0)

Range(seq) == {seq[i] : i \in 1..Len(seq)}

\* ------------------------------------------------------------------------
\* Keywords written in the source
\* ------------------------------------------------------------------------
kw_adolescente  == <<"a", "d", "o", "l", "e", "s", "c", "e", "n", "t", "e">>
kw_joven        == <<"j", "o", "v", "e", "n">>
kw_adulto_joven == <<"a", "d", "u", "l", "t", "o", " ", "j", "o", "v", "e", "n">>
kw_adulto       == <<"a", "d", "u", "l", "t", "o">>
kw_adulto_mayor == <<"a", "d", "u", "l", "t", "o", " ", "m", "a", "y", "o", "r">>
kw_tercera_edad == <<"t", "e", "r", "c", "e", "r", "a", " ", "e", "d", "a", "d">>
kw_bajo_peso    == <<"b", "a", "j", "o", " ", "p", "e", "s", "o">>
kw_peso_normal  == <<"p", "e", "s", "o", " ", "n", "o", "r", "m", "a", "l">>
kw_sobrepeso    == <<"s", "o", "b", "r", "e", "p", "e", "s", "o">>
kw_obesidad     == <<"o", "b", "e", "s", "i", "d", "a", "d">>

\* ------------------------------------------------------------------------
\* Numbers written in the source
\* ------------------------------------------------------------------------
AgeAdolescent  == 18
AgeYoungAdult  == 30
AgeAdult       == 60
BmiUnderweight == 1850
BmiNormal      == 2500
BmiOverweight  == 3000
MinWordLen     == 3
TagWeight      == 3
ProfileWeight  == 2
ContentWeight  == 1
DefaultTopK    == 2

\* ------------------------------------------------------------------------
\* Values typed into the forms
\* ------------------------------------------------------------------------
\* "Edad": st.number_input(min_value=1, max_value=120)
Ages == <<17, 18, 29, 30, 59, 60>>

\* "Peso (kg)" in tenths of a kilogram and "Altura (cm)" in centimetres; with
\* these values weight / (height/100)^2 has at most two decimals
Weights == <<738, 740, 998, 1000, 1198, 1200>>
Heights == <<200>>

\* "Condiciones de Salud (separadas por comas)"
HealthConditionsInputs ==
  << <<>>,                                                \* ""
     <<"D", "i", "a", "b", "e", "t", "e", "s">>,          \* "Diabetes"
     \* "Diabetes Tipo 2 ,Obesidad, "
     <<"D", "i", "a", "b", "e", "t", "e", "s", " ", "T", "i", "p", "o", " ", "2", " ", ",">> \o
     <<"O", "b", "e", "s", "i", "d", "a", "d", ",", " ">>
  >>

\* "Consideraciones Especiales"
SpecialConsiderationsInputs ==
  { <<>>,                                                \* ""
    \* "Sin Soya vegano"
    <<"S", "i", "n", " ", "S", "o", "y", "a", " ", "v", "e", "g", "a", "n", "o">>
  }

\* add_example_form: "Título del Plan", "Perfil del Paciente", "Etiquetas
\* (separadas por comas)" and "Contenido del Plan"
ExampleForms ==
  { \* "Plan A" / "patient has diabetes" / "diabetes" / "avoid diabetes triggers"
    [ example_title   |-> <<"P", "l", "a", "n", " ", "A">>,
      example_profile |-> <<"p", "a", "t", "i", "e", "n", "t", " ", "h", "a", "s", " ",
                            "d", "i", "a", "b", "e", "t", "e", "s">>,
      example_tags_input |-> <<"d", "i", "a", "b", "e", "t", "e", "s">>,
      example_content |-> <<"a", "v", "o", "i", "d", " ", "d", "i", "a", "b", "e", "t",
                            "e", "s", " ", "t", "r", "i", "g", "g", "e", "r", "s">> ],
    \* "Plan B" / "Adulto mayor con sobrepeso" / "Sobrepeso, adulto mayor" /
    \* "dieta para adulto"
    [ example_title   |-> <<"P", "l", "a", "n", " ", "B">>,
      example_profile |-> <<"A", "d", "u", "l", "t", "o", " ", "m", "a", "y", "o", "r", " ",
                            "c", "o", "n", " ", "s", "o", "b", "r", "e", "p", "e", "s", "o">>,
      example_tags_input |-> <<"S", "o", "b", "r", "e", "p", "e", "s", "o", ",", " ",
                               "a", "d", "u", "l", "t", "o", " ", "m", "a", "y", "o", "r">>,
      example_content |-> <<"d", "i", "e", "t", "a", " ", "p", "a", "r", "a", " ",
                            "a", "d", "u", "l", "t", "o">> ],
    \* "Plan C" / "Deportista joven" / "Vegano,vegano" / "plan keto"
    [ example_title   |-> <<"P", "l", "a", "n", " ", "C">>,
      example_profile |-> <<"D", "e", "p", "o", "r", "t", "i", "s", "t", "a", " ",
                            "j", "o", "v", "e", "n">>,
      example_tags_input |-> <<"V", "e", "g", "a", "n", "o", ",", "v", "e", "g", "a", "n", "o">>,
      example_content |-> <<"p", "l", "a", "n", " ", "k", "e", "t", "o">> ],
    \* a form submitted without tags
    [ example_title   |-> <<"P", "l", "a", "n", " ", "D">>,
      example_profile |-> <<"D", "e", "p", "o", "r", "t", "i", "s", "t", "a">>,
      example_tags_input |-> <<>>,
      example_content |-> <<"p", "l", "a", "n", " ", "k", "e", "t", "o">> ]
  }

\* ------------------------------------------------------------------------
\* Patient rows
\* ------------------------------------------------------------------------
\* a nullable Float column: <<>> is NULL / None, <<v>> is the value v
None == <<>>
Some(v) == <<v>>

\* calculate_bmi: round(weight / (height / 100) ** 2, 2), in hundredths
CalculateBmi(weight, height) ==
  LET n == weight * 100000
      d == height * height
      q == n \div d
      r == n % d
  IN  IF 2 * r > d THEN q + 1
      ELSE IF 2 * r = d THEN q + (q % 2)
      ELSE q

\* the Patient row the "Crear Paciente" handler stores
NewPatient(age, weight, height, health_conditions) ==
  [ age    |-> age,
    weight |-> weight,
    height |-> height,
    health_conditions |->
      IF health_conditions # <<>>
      THEN LET parts == SplitOn(health_conditions, ",")
           IN  [i \in 1..Len(parts) |-> Strip(parts[i])]
      ELSE <<>>,
    bmi    |-> Some(CalculateBmi(weight, height)) ]

\* what is typed into the patient form: every age with every weight, and
\* every condition text with each age and with each weight
PatientForms ==
  { [ age    |-> Ages[i],
      weight |-> Weights[j],
      height |-> Heights[1],
      health_conditions |->
        HealthConditionsInputs[((i + j) % Len(HealthConditionsInputs)) + 1] ] :
    i \in 1..Len(Ages), j \in 1..Len(Weights) }

\* the rows the form handlers can have stored
FormPatients ==
  { NewPatient(f.age, f.weight, f.height, f.health_conditions) : f \in PatientForms }

\* ------------------------------------------------------------------------
\* find_relevant_examples: the keyword extractor
\* ------------------------------------------------------------------------
\* the conditions split into their words
ConditionKeywordsTokenized(patient) ==
  UNION {Range(SplitWhitespace(Lower(condition))) :
           condition \in Range(patient.health_conditions)}

\* "Add health conditions": condition.lower().strip(), one keyword each
ConditionKeywords(patient) ==
  IF patient.health_conditions # <<>>
  THEN {Strip(Lower(condition)) : condition \in Range(patient.health_conditions)}
  ELSE {}

\* the words of three characters kept as well
SpecialKeywordsFromThree(special_considerations) ==
  {w \in Range(SplitWhitespace(Lower(special_considerations))) :
     Len(w) >= MinWordLen}

\* "Add special considerations": the words of the lower-cased text that are
\* longer than three characters
SpecialKeywords(special_considerations) ==
  IF special_considerations # <<>>
  THEN {Strip(word) :
          word \in {w \in Range(SplitWhitespace(Lower(special_considerations))) :
                      Len(w) > MinWordLen}}
  ELSE {}

\* the age thresholds compared with <= in place of <
AgeKeywordsInclusive(age) ==
  IF age <= AgeAdolescent THEN {kw_adolescente, kw_joven}
  ELSE IF age <= AgeYoungAdult THEN {kw_adulto_joven}
  ELSE IF age <= AgeAdult THEN {kw_adulto}
  ELSE {kw_adulto_mayor, kw_tercera_edad}

\* "Add age range keywords"
AgeKeywords(age) ==
  IF age < AgeAdolescent THEN {kw_adolescente, kw_joven}
  ELSE IF age < AgeYoungAdult THEN {kw_adulto_joven}
  ELSE IF age < AgeAdult THEN {kw_adulto}
  ELSE {kw_adulto_mayor, kw_tercera_edad}

\* the BMI thresholds compared with <= in place of <
BmiKeywordsInclusive(bmi) ==
  IF bmi <= BmiUnderweight THEN {kw_bajo_peso}
  ELSE IF bmi <= BmiNormal THEN {kw_peso_normal}
  ELSE IF bmi <= BmiOverweight THEN {kw_sobrepeso}
  ELSE {kw_obesidad}

\* "Add BMI category"; bmi is a number here (None < 18.5 raises TypeError)
BmiKeywords(bmi) ==
  IF bmi < BmiUnderweight THEN {kw_bajo_peso}
  ELSE IF bmi < BmiNormal THEN {kw_peso_normal}
  ELSE IF bmi < BmiOverweight THEN {kw_sobrepeso}
  ELSE {kw_obesidad}

\* ------------------------------------------------------------------------
\* find_relevant_examples: the scorer and the selector
\* ------------------------------------------------------------------------
\* "Check tags": +3 for every entry of the tag list whose lower() is a keyword
RECURSIVE TagScore(_, _)
TagScore(tags, search_keywords) ==
  IF tags = <<>> THEN 0
  ELSE (IF Lower(Head(tags)) \in search_keywords THEN TagWeight ELSE 0)
       + TagScore(Tail(tags), search_keywords)

\* "Check patient profile" / "Check plan content": +weight for every keyword
\* found in the lower-cased text; a None or empty text is skipped
TextScore(txt, search_keywords, weight) ==
  IF txt # <<>>
  THEN LET text_lower == Lower(txt)
       IN  weight * Cardinality({keyword \in search_keywords :
                                   IsSubstring(keyword, text_lower)})
  ELSE 0

\* the profile and the plan body with each other's weight
ExampleScoreSwapped(example, search_keywords) ==
  TagScore(example.tags, search_keywords)
  + TextScore(example.patient_profile, search_keywords, ContentWeight)
  + TextScore(example.plan_content, search_keywords, ProfileWeight)

ExampleScore(example, search_keywords) ==
  TagScore(example.tags, search_keywords)
  + TextScore(example.patient_profile, search_keywords, ProfileWeight)
  + TextScore(example.plan_content, search_keywords, ContentWeight)

\* the early return left out
NoExamplesSkipped(examples) == FALSE

\* `if not all_examples: return []`
NoExamples(examples) == examples = <<>>

\* `score >= 0` in place of `score > 0`
KeepScoredZero(score) == score >= 0

\* `if score > 0: scored_examples.append((score, example))`
KeepScored(score) == score > 0

\* the loop over all_examples that builds scored_examples
RECURSIVE ScoreExamples(_, _)
ScoreExamples(examples, search_keywords) ==
  IF examples = <<>> THEN <<>>
  ELSE LET score == ExampleScore(Head(examples), search_keywords)
           rest  == ScoreExamples(Tail(examples), search_keywords)
       IN  IF KeepScored(score)
           THEN <<[score |-> score, example |-> Head(examples)]>> \o rest
           ELSE rest

\* an ascending sort: the entry goes behind the entries with a smaller score
InsertByScoreAscending(sorted, entry) ==
  LET ahead == {i \in 1..Len(sorted) : sorted[i].score <= entry.score}
      n     == Cardinality(ahead)
  IN  SubSeq(sorted, 1, n) \o <<entry>> \o SubSeq(sorted, n + 1, Len(sorted))

\* a descending sort that is not stable: the entry goes ahead of its ties
InsertByScoreUnstable(sorted, entry) ==
  LET ahead == {i \in 1..Len(sorted) : sorted[i].score > entry.score}
      n     == Cardinality(ahead)
  IN  SubSeq(sorted, 1, n) \o <<entry>> \o SubSeq(sorted, n + 1, Len(sorted))

\* where list.sort(reverse=True, key=score) places an entry among the sorted
\* entries that preceded it: behind every entry whose score is not smaller
InsertByScore(sorted, entry) ==
  LET ahead == {i \in 1..Len(sorted) : sorted[i].score >= entry.score}
      n     == Cardinality(ahead)
  IN  SubSeq(sorted, 1, n) \o <<entry>> \o SubSeq(sorted, n + 1, Len(sorted))

\* scored_examples.sort(reverse=True, key=lambda x: x[0]): a stable sort
RECURSIVE SortByScore(_)
SortByScore(scored) ==
  IF scored = <<>> THEN <<>>
  ELSE InsertByScore(SortByScore(SubSeq(scored, 1, Len(scored) - 1)),
                     scored[Len(scored)])

\* the slice one entry too long
SelectTopOneMore(scored, k) ==
  LET top == Take(scored, k + 1)
  IN  [i \in 1..Len(top) |-> top[i].example]

\* `[example for score, example in scored_examples[:top_k]]`
SelectTop(scored, k) ==
  LET top == Take(scored, k)
  IN  [i \in 1..Len(top) |-> top[i].example]

\* ------------------------------------------------------------------------
\* State
\* ------------------------------------------------------------------------
VARIABLES
  example_plans,          \* the example_plans table, in the order a query returns it
  next_example_id,        \* the next id the table's sequence hands out
  pc,                     \* find_relevant_examples: "idle", "scoring", "returned",
                          \* "raised"; "again" and "returned_again" in a repeated call
  patient,                \* argument: the Patient row (None while idle)
  special_considerations, \* argument: the free text
  top_k,                  \* argument: the result limit (None while idle)
  all_examples,           \* local: the rows read at the start of the call
  search_keywords,        \* local: the keyword set
  scored_examples,        \* local: the (score, example) list, after the sort
  result,                 \* the returned list of examples
  patients,               \* the patients table, oldest row first
  lab_values,             \* the lab_values table, oldest row first
  diet_plans,             \* the diet_plans table, oldest row first
  next_patient_id,        \* the next ids the three tables' sequences hand out
  next_lab_value_id,
  next_plan_id,
  session_state,          \* st.session_state of one browser session: key -> value
  selector_params,        \* options and index the patient selector was last drawn with
  page,                   \* the controls the last script run left enabled on the page
  rerun,                  \* a script run is due: the first one, or after st.rerun()
  handler                 \* the button handler that is inside generate_diet_plan_*

storeVars ==
  << patients, lab_values, diet_plans, next_patient_id, next_lab_value_id,
     next_plan_id >>

uiVars == << session_state, selector_params, page, rerun, handler >>

appVars == << storeVars, uiVars >>

vars ==
  << example_plans, next_example_id, pc, patient, special_considerations,
     top_k, all_examples, search_keywords, scored_examples, result, appVars >>

callVars ==
  << pc, patient, special_considerations, top_k, all_examples,
     search_keywords, scored_examples, result >>

TopKs == 0..MaxTopK

Init ==
  /\ example_plans = <<>>
  /\ next_example_id = 1
  /\ pc = "idle"
  /\ patient = None
  /\ special_considerations = <<>>
  /\ top_k = None
  /\ all_examples = <<>>
  /\ search_keywords = {}
  /\ scored_examples = <<>>
  /\ result = <<>>
  /\ patients = <<>>
  /\ lab_values = <<>>
  /\ diet_plans = <<>>
  /\ next_patient_id = 1
  /\ next_lab_value_id = 1
  /\ next_plan_id = 1
  /\ session_state = [key \in {} |-> None]
  /\ selector_params = None
  /\ page = {}
  /\ rerun = TRUE
  /\ handler = None

\* ------------------------------------------------------------------------
\* "Guardar Ejemplo" of add_example_form (pasted text, no uploaded file)
\* ------------------------------------------------------------------------
NewExample(id, form) ==
  [ id              |-> id,
    title           |-> form.example_title,
    patient_profile |-> form.example_profile,
    plan_content    |-> form.example_content,
    tags            |-> LET parts == SplitOn(form.example_tags_input, ",")
                        IN  [i \in 1..Len(parts) |-> Strip(parts[i])] ]

AddExample(form) ==
  /\ next_example_id <= MaxExamples
  /\ IF \/ form.example_title = <<>>
        \/ form.example_profile = <<>>
        \/ form.example_tags_input = <<>>
        \/ form.example_content = <<>>
     THEN \* st.error(...): nothing is saved
          UNCHANGED << example_plans, next_example_id >>
     ELSE /\ example_plans' = Append(example_plans, NewExample(next_example_id, form))
          /\ next_example_id' = next_example_id + 1
  /\ UNCHANGED << callVars, appVars >>

\* ------------------------------------------------------------------------
\* find_relevant_examples(patient, lab_values, special_considerations, top_k)
\* ------------------------------------------------------------------------
\* the read that also deletes the rows it has read
FindRelevantExamplesReadDeleting(p, sc, k) ==
  /\ pc = "idle"
  /\ pc' = "scoring"
  /\ patient' = p
  /\ special_considerations' = sc
  /\ top_k' = k
  /\ all_examples' = example_plans
  /\ example_plans' = <<>>
  /\ UNCHANGED << next_example_id, search_keywords, scored_examples, result,
                  storeVars, session_state, selector_params, page, rerun >>

\* session.query(ExamplePlan).all()
FindRelevantExamplesRead(p, sc, k) ==
  /\ pc = "idle"
  /\ pc' = "scoring"
  /\ patient' = p
  /\ special_considerations' = sc
  /\ top_k' = k
  /\ all_examples' = example_plans
  /\ UNCHANGED << example_plans, next_example_id, search_keywords,
                  scored_examples, result, storeVars, session_state,
                  selector_params, page, rerun >>

\* the table read again when the rows are scored
ExamplesOfCallRequeried == example_plans

\* `for example in all_examples`: the rows the call scores are the rows it read
ExamplesOfCall == all_examples

\* the rest of the function, which touches only its locals
FindRelevantExamplesScore ==
  /\ pc \in {"scoring", "again"}
  /\ IF NoExamples(ExamplesOfCall)
     THEN \* return []
          /\ pc' = IF pc = "again" THEN "returned_again" ELSE "returned"
          /\ result' = <<>>
          /\ UNCHANGED << search_keywords, scored_examples >>
     ELSE IF patient.bmi = None
     THEN \* `bmi < 18.5` with bmi None: TypeError
          /\ pc' = "raised"
          /\ search_keywords' = ConditionKeywords(patient)
                                \cup SpecialKeywords(special_considerations)
                                \cup AgeKeywords(patient.age)
          /\ UNCHANGED << scored_examples, result >>
     ELSE LET keywords == ConditionKeywords(patient)
                          \cup SpecialKeywords(special_considerations)
                          \cup AgeKeywords(patient.age)
                          \cup BmiKeywords(patient.bmi[1])
              scored   == SortByScore(ScoreExamples(ExamplesOfCall, keywords))
          IN  /\ pc' = IF pc = "again" THEN "returned_again" ELSE "returned"
              /\ search_keywords' = keywords
              /\ scored_examples' = scored
              /\ result' = SelectTop(scored, top_k)
  /\ UNCHANGED << example_plans, next_example_id, patient,
                  special_considerations, top_k, all_examples, appVars >>

\* the frame of the call is gone
FrameDropped ==
  /\ pc' = "idle"
  /\ patient' = None
  /\ special_considerations' = <<>>
  /\ top_k' = None
  /\ all_examples' = <<>>
  /\ search_keywords' = {}
  /\ scored_examples' = <<>>
  /\ result' = <<>>

\* the caller takes the list (or the exception)
FindRelevantExamplesDone ==
  /\ pc \in {"returned", "returned_again", "raised"}
  /\ FrameDropped
  /\ UNCHANGED << example_plans, next_example_id, appVars >>

Next ==
  \/ \E form \in ExampleForms : AddExample(form)
  \/ \E p \in FormPatients, sc \in SpecialConsiderationsInputs, k \in TopKs :
       FindRelevantExamplesRead(p, sc, k) /\ UNCHANGED handler
  \/ FindRelevantExamplesScore
  \/ FindRelevantExamplesDone

Spec == Init /\ [][Next]_vars

\* ------------------------------------------------------------------------
\* Rows with a NULL bmi: the column is `Column(Float)`, nullable, so the
\* table can hold a row that was not written by the two form handlers
\* ------------------------------------------------------------------------
NullBmiPatients ==
  { [p EXCEPT !.bmi = None] : p \in {q \in FormPatients : q.weight = Weights[1]} }

NextNullBmi ==
  \/ Next
  \/ \E p \in NullBmiPatients, sc \in SpecialConsiderationsInputs, k \in TopKs :
       FindRelevantExamplesRead(p, sc, k) /\ UNCHANGED handler

SpecNullBmi == Init /\ [][NextNullBmi]_vars

\* ------------------------------------------------------------------------
\* A repeated call: the caller calls find_relevant_examples again with the
\* arguments of the call that has just returned, while the table holds the
\* rows that call read.  The list the first call returned stays in `result`
\* until the second call returns its own.
\* ------------------------------------------------------------------------
FindRelevantExamplesAgain ==
  /\ pc = "returned"
  /\ example_plans = all_examples
  /\ pc' = "again"
  /\ all_examples' = example_plans
  /\ UNCHANGED << example_plans, next_example_id, patient,
                  special_considerations, top_k, search_keywords,
                  scored_examples, result, appVars >>

NextRepeat ==
  \/ Next
  \/ FindRelevantExamplesAgain

SpecRepeat == Init /\ [][NextRepeat]_vars

\* ------------------------------------------------------------------------
\* The Streamlit script, as run by one browser session in which an API key
\* has been entered.  One script run is one step; the run inside
\* generate_diet_plan_* is split at the call of find_relevant_examples.
\* ------------------------------------------------------------------------
InitKeys ==
  { "patient_created", "plan_generated", "current_patient_id", "current_plan",
    "current_plan_id", "load_existing_patient", "show_add_example" }

FormKeys ==
  { "patient_name", "patient_age", "patient_gender", "patient_weight",
    "patient_height", "patient_health_conditions", "patient_glucose",
    "patient_cholesterol", "patient_triglycerides", "patient_hemoglobin" }

\* keys_to_delete of reset_form, without current_plan_id
KeysToDeleteKeepPlanId ==
  { "patient_created", "plan_generated", "current_patient_id", "current_plan",
    "load_existing_patient" } \cup FormKeys

\* keys_to_delete of reset_form
KeysToDelete ==
  { "patient_created", "plan_generated", "current_patient_id", "current_plan",
    "current_plan_id", "load_existing_patient" } \cup FormKeys

\* the value the initialisation block gives a key
InitialValue(key) ==
  IF key \in { "patient_created", "plan_generated", "load_existing_patient",
               "show_add_example" }
  THEN FALSE
  ELSE None

\* "Inicializar estado de sesión": every absent key gets its initial value
InitSessionState(ss) ==
  [key \in DOMAIN ss \cup InitKeys |->
     IF key \in DOMAIN ss THEN ss[key] ELSE InitialValue(key)]

\* a reset_form() that leaves the loaded patient in the session
ResetFormKeepsPatient(ss) ==
  [key \in DOMAIN ss \ (KeysToDelete \ {"current_patient_id", "load_existing_patient"})
     |-> ss[key]]

\* reset_form(): del st.session_state[key] for the keys present
ResetForm(ss) ==
  [key \in DOMAIN ss \ KeysToDelete |-> ss[key]]

\* st.session_state.get(key, default)
Get(ss, key, default) ==
  IF key \in DOMAIN ss THEN ss[key] ELSE default

\* ', '.join(parts)
RECURSIVE JoinComma(_)
JoinComma(parts) ==
  IF parts = <<>> THEN <<>>
  ELSE IF Len(parts) = 1 THEN parts[1]
  ELSE parts[1] \o <<",", " ">> \o JoinComma(Tail(parts))

\* gender_map and gender_map_reverse
GenderMap(gender) ==
  CASE gender = "Masculino" -> "male"
    [] gender = "Femenino"  -> "female"
    [] OTHER                -> "other"

GenderMapReverse(gender) ==
  CASE gender = "male"   -> "Masculino"
    [] gender = "female" -> "Femenino"
    [] gender = "other"  -> "Otro"
    [] OTHER             -> "Masculino"

\* what is typed into the patient form of the page: a complete form, and the
\* same form without a name
AppPatientForms ==
  { [ name |-> name, age |-> Ages[4], gender |-> "Femenino",
      weight |-> Weights[2], height |-> Heights[1],
      health_conditions |-> HealthConditionsInputs[3],
      glucose |-> 950, cholesterol |-> 0, triglycerides |-> 0, hemoglobin |-> 0 ] :
    name \in {"Ana", ""} }

\* "Consideraciones Especiales" and "Ingresa modificaciones o requisitos
\* adicionales" as typed in the page
AppSpecialConsiderations == { <<"S", "i", "n", " ", "S", "o", "y", "a">> }
AppModifications == { <<"m", "a", "s">> }

\* the forms of add_example_form typed in the page
AppExampleForms ==
  { form \in ExampleForms :
      \/ form.example_tags_input = <<>>
      \/ form.example_tags_input = <<"d", "i", "a", "b", "e", "t", "e", "s">> }

\* the text the LLM provider returns
PlanTexts == { "plan" }

\* `if not name or not age or not weight or not height`
FormIncomplete(form) ==
  \/ form.name = ""
  \/ form.age = 0
  \/ form.weight = 0
  \/ form.height = 0

\* `float(v) if v > 0 else None`
LabField(v) == IF v > 0 THEN Some(v) ELSE None

\* any([glucose, cholesterol, triglycerides, hemoglobin])
AnyLabValue(form) ==
  \/ form.glucose # 0
  \/ form.cholesterol # 0
  \/ form.triglycerides # 0
  \/ form.hemoglobin # 0

\* Patient(name=..., ..., bmi=bmi_value) with the id the table gives it
PatientRow(id, form) ==
  [ id     |-> id,
    name   |-> form.name,
    gender |-> GenderMap(form.gender) ]
  @@ NewPatient(form.age, form.weight, form.height, form.health_conditions)

\* LabValue(patient_id=..., glucose=..., ...)
LabValueRow(id, patient_id, form) ==
  [ id            |-> id,
    patient_id    |-> patient_id,
    glucose       |-> LabField(form.glucose),
    cholesterol   |-> LabField(form.cholesterol),
    triglycerides |-> LabField(form.triglycerides),
    hemoglobin    |-> LabField(form.hemoglobin) ]

\* DietPlan(patient_id=..., plan_details=..., special_considerations=...)
DietPlanRow(id, patient_id, plan_text, sc) ==
  [ id                     |-> id,
    patient_id             |-> patient_id,
    plan_details           |-> plan_text,
    special_considerations |-> sc ]

\* session.query(Patient).filter_by(id=...).first(): None or the row
PatientById(id) ==
  IF \E i \in 1..Len(patients) : Some(patients[i].id) = id
  THEN Some(patients[CHOOSE i \in 1..Len(patients) : Some(patients[i].id) = id])
  ELSE None

\* session.query(LabValue).filter_by(patient_id=...)
\*   .order_by(LabValue.created_at.desc()).first(): the position of the row, or 0
LatestLabValue(patient_id) ==
  LET rows == {i \in 1..Len(lab_values) : lab_values[i].patient_id = patient_id}
  IN  IF rows = {} THEN 0
      ELSE CHOOSE i \in rows : \A j \in rows : j <= i

\* session.query(DietPlan).filter_by(id=...).first(): the position, or 0
PlanPosition(id) ==
  IF \E i \in 1..Len(diet_plans) : Some(diet_plans[i].id) = id
  THEN CHOOSE i \in 1..Len(diet_plans) : Some(diet_plans[i].id) = id
  ELSE 0

\* a sequence without its i-th element
RemoveAt(seq, i) ==
  [j \in 1..(Len(seq) - 1) |-> IF j < i THEN seq[j] ELSE seq[j + 1]]

\* ------------------------------------------------------------------------
\* "Buscar Paciente Existente": the selector and the reconciliation
\* ------------------------------------------------------------------------
\* the option "-- Crear Nuevo Paciente --" is <<>>; the option
\* f"{p.name} (ID: {p.id}) - {p.age} años" is the triple it is made of
NewPatientOption == <<>>
PatientOption(p) == <<p.id, p.name, p.age>>

\* patient_options[label]
OptionId(option) ==
  IF option = NewPatientOption THEN None ELSE Some(option[1])

\* list(patient_options.keys()), the patients newest first
PatientOptions ==
  <<NewPatientOption>> \o
  [i \in 1..Len(patients) |-> PatientOption(patients[Len(patients) + 1 - i])]

\* default_index, counted from 1
DefaultIndex(ss, options) ==
  LET hits == {i \in 1..Len(options) : /\ OptionId(options[i]) # None
                                       /\ OptionId(options[i]) = ss.current_patient_id}
  IN  IF ss.current_patient_id # None /\ hits # {}
      THEN CHOOSE i \in hits : \A j \in hits : i <= j
      ELSE 1

\* st.selectbox(..., options, index=default_index, key="patient_selector"):
\* the widget keeps the value under its key while it is drawn with the same
\* options and index; drawn with other options it is a new widget showing
\* options[index]; drawn with the same options and another index it keeps
\* its value or shows options[index], depending on the Streamlit release
SelectorValue(ss, keep) ==
  LET options == PatientOptions
      index   == DefaultIndex(ss, options)
      same_options == selector_params # None /\ selector_params[1].options = options
      same_index   == selector_params # None /\ selector_params[1].index = index
  IN  IF /\ "patient_selector" \in DOMAIN ss
         /\ same_options
         /\ (same_index \/ keep)
      THEN ss["patient_selector"]
      ELSE options[index]

\* the reconciliation that sets only the id of the loaded patient
LoadPatientIdOnly(ss, p, lab) ==
  ("current_patient_id" :> Some(p.id)) @@ ss

\* "Load patient data": the session keys set from the row and its latest
\* lab values (lab is 0 or the position of the row)
LoadPatient(ss, p, lab) ==
  LET value(field) ==
        IF lab # 0 /\ lab_values[lab][field] # None
        THEN lab_values[lab][field][1]
        ELSE 0
  IN  ( "patient_created"       :> TRUE
     @@ "current_patient_id"    :> Some(p.id)
     @@ "load_existing_patient" :> TRUE
     @@ "patient_name"          :> p.name
     @@ "patient_age"           :> p.age
     @@ "patient_gender"        :> GenderMapReverse(p.gender)
     @@ "patient_weight"        :> p.weight
     @@ "patient_height"        :> p.height
     @@ "patient_health_conditions" :> JoinComma(p.health_conditions)
     @@ "patient_glucose"       :> value("glucose")
     @@ "patient_cholesterol"   :> value("cholesterol")
     @@ "patient_triglycerides" :> value("triglycerides")
     @@ "patient_hemoglobin"    :> value("hemoglobin") )
     @@ ss

\* the script from its first line to the end of the reconciliation, with no
\* button of that part pressed: the session state it leaves, the parameters
\* the selector was drawn with, and how the part ends ("continue" into the
\* patient form, "rerun" by st.rerun(), "error" by the AttributeError of
\* `example.content` in the list of stored examples)
Top(ss0, keep) ==
  LET ss1 == InitSessionState(ss0)
  IN  IF ss1.show_add_example /\ example_plans # <<>>
      THEN [outcome |-> "error", ss |-> ss1, params |-> selector_params]
      ELSE IF patients = <<>>
      THEN [outcome |-> "continue", ss |-> ss1, params |-> selector_params]
      ELSE
        LET options  == PatientOptions
            value    == SelectorValue(ss1, keep)
            ss2      == ("patient_selector" :> value) @@ ss1
            params   == Some([options |-> options, index |-> DefaultIndex(ss1, options)])
            selected == OptionId(value)
        IN  IF selected # ss2.current_patient_id
            THEN IF selected # None
                 THEN LET p == PatientById(selected)[1]
                      IN  [outcome |-> "rerun",
                           ss |-> LoadPatient(ss2, p, LatestLabValue(p.id)),
                           params |-> params]
                 ELSE IF ss2.load_existing_patient
                 THEN [outcome |-> "rerun", ss |-> ResetForm(ss2), params |-> params]
                 ELSE [outcome |-> "continue", ss |-> ss2, params |-> params]
            ELSE [outcome |-> "continue", ss |-> ss2, params |-> params]

\* ------------------------------------------------------------------------
\* The page a script run leaves
\* ------------------------------------------------------------------------
\* the controls left enabled by a run that reaches the last line
RenderedPage ==
  LET ss == session_state
      current_plans ==
        {i \in 1..Len(diet_plans) : Some(diet_plans[i].patient_id) = ss.current_patient_id}
  IN  { <<"add_example">>, <<"reset">> }
      \cup (IF ss.show_add_example THEN { <<"example_form">> } ELSE {})
      \cup (IF patients # <<>> THEN { <<"selector">> } ELSE {})
      \cup (IF ~ss.load_existing_patient /\ ~ss.patient_created
            THEN { <<"create">> } ELSE {})
      \cup (IF ss.load_existing_patient THEN { <<"update">> } ELSE {})
      \cup (IF ss.patient_created THEN { <<"generate">> } ELSE {})
      \cup (IF ss.patient_created /\ ss.current_patient_id # None
            THEN { <<"load_plan", diet_plans[i].id>> : i \in current_plans }
                 \cup { <<"delete_plan", diet_plans[i].id>> : i \in current_plans }
            ELSE {})
      \cup (IF ss.plan_generated /\ ss.current_plan \notin {None, Some("")}
            THEN { <<"regenerate">> } ELSE {})

\* the controls left by a run that ends at `example.content`
ErrorPage == { <<"add_example">>, <<"example_form">> }

\* ------------------------------------------------------------------------
\* Script runs
\* ------------------------------------------------------------------------
exampleVars == << example_plans, next_example_id >>

\* the user can act: no script run is due and none is in progress
Idle == ~rerun /\ handler = None

\* the message st.error(...) leaves on the page when a handler ends in its
\* `except` branch
ErrorMessage(op) ==
  CASE op = "generate"   -> { <<"error_generate">> }
    [] op = "regenerate" -> { <<"error_regenerate">> }
    [] op = "create"     -> { <<"error_create">> }

\* a run that ends before the patient form, by st.rerun() or by the error
RunEndsEarly(top) ==
  /\ session_state' = top.ss
  /\ selector_params' = top.params
  /\ rerun' = (top.outcome = "rerun")
  /\ page' = IF top.outcome = "error" THEN ErrorPage ELSE {}
  /\ handler' = None
  /\ UNCHANGED << exampleVars, callVars, storeVars >>

\* a run that reaches the last line of the script with the session state ss
\* and leaves the tables as they are
RunCompletes(ss, params) ==
  /\ session_state' = ss
  /\ selector_params' = params
  /\ rerun' = FALSE
  /\ handler' = None
  /\ UNCHANGED << exampleVars, callVars, storeVars >>
  /\ page' = RenderedPage'

\* a run with no button pressed: the first run of the session, or the run
\* after st.rerun()
ScriptRun(keep) ==
  /\ rerun
  /\ LET top == Top(session_state, keep)
     IN  IF top.outcome = "continue"
         THEN RunCompletes(top.ss, top.params)
         ELSE RunEndsEarly(top)

\* the user picks another option of the selector
SelectPatient(option, keep) ==
  /\ Idle
  /\ <<"selector">> \in page
  /\ selector_params # None
  /\ \E i \in 1..Len(selector_params[1].options) :
       selector_params[1].options[i] = option
  /\ Get(session_state, "patient_selector", selector_params[1].options[1]) # option
  /\ LET top == Top(("patient_selector" :> option) @@ session_state, keep)
     IN  IF top.outcome = "continue"
         THEN RunCompletes(top.ss, top.params)
         ELSE RunEndsEarly(top)

\* "Agregar Plan de Ejemplo" in the sidebar
PressAddExample(keep) ==
  /\ Idle
  /\ <<"add_example">> \in page
  /\ LET top == Top(("show_add_example" :> TRUE) @@ InitSessionState(session_state),
                    keep)
     IN  IF top.outcome = "continue"
         THEN RunCompletes(top.ss, top.params)
         ELSE RunEndsEarly(top)

\* "Guardar Ejemplo" of add_example_form, from this session
SaveExample(form, keep) ==
  /\ Idle
  /\ <<"example_form">> \in page
  /\ next_example_id <= MaxExamples
  /\ LET ss1 == InitSessionState(session_state)
     IN  IF ~ss1.show_add_example
         THEN \* the form is not drawn: the press is lost
              LET top == Top(ss1, keep)
              IN  IF top.outcome = "continue"
                  THEN RunCompletes(top.ss, top.params)
                  ELSE RunEndsEarly(top)
         ELSE IF \/ form.example_title = <<>>
                 \/ form.example_profile = <<>>
                 \/ form.example_tags_input = <<>>
                 \/ form.example_content = <<>>
         THEN \* st.error(...), and the script goes on
              LET top == Top(ss1, keep)
              IN  IF top.outcome = "continue"
                  THEN RunCompletes(top.ss, top.params)
                  ELSE RunEndsEarly(top)
         ELSE /\ example_plans' = Append(example_plans, NewExample(next_example_id, form))
              /\ next_example_id' = next_example_id + 1
              /\ session_state' = ("show_add_example" :> FALSE) @@ ss1
              /\ rerun' = TRUE
              /\ page' = {}
              /\ UNCHANGED << callVars, storeVars, selector_params, handler >>

\* "Cancelar" of add_example_form
CancelExample ==
  /\ Idle
  /\ <<"example_form">> \in page
  /\ session_state' = ("show_add_example" :> FALSE) @@ InitSessionState(session_state)
  /\ rerun' = TRUE
  /\ page' = {}
  /\ UNCHANGED << exampleVars, callVars, storeVars, selector_params, handler >>

\* "Crear Paciente y Guardar Datos"; fail names the commit that raises
PressCreate(form, fail, keep) ==
  /\ Idle
  /\ <<"create">> \in page
  /\ next_patient_id <= MaxPatients
  /\ LET top == Top(session_state, keep)
     IN  IF top.outcome # "continue"
         THEN RunEndsEarly(top)
         ELSE IF top.ss.load_existing_patient \/ FormIncomplete(form)
         THEN \* the button is not drawn, or the st.error(...) of line 680
              RunCompletes(top.ss, top.params)
         ELSE IF fail = "patient"
         THEN \* the first commit raises: st.error(...) and the rollback
              /\ session_state' = top.ss
              /\ selector_params' = top.params
              /\ rerun' = FALSE
              /\ handler' = None
              /\ UNCHANGED << exampleVars, callVars, storeVars >>
              /\ page' = RenderedPage' \cup ErrorMessage("create")
         ELSE LET id == next_patient_id
                  \* an exception after the commit of the patient row
                  raised == \/ fail = "refresh"
                            \/ AnyLabValue(form) /\ fail = "lab_value"
              IN  /\ patients' = Append(patients, PatientRow(id, form))
                  /\ next_patient_id' = id + 1
                  /\ IF AnyLabValue(form) /\ ~raised
                     THEN /\ lab_values' = Append(lab_values,
                                                  LabValueRow(next_lab_value_id, id, form))
                          /\ next_lab_value_id' = next_lab_value_id + 1
                     ELSE UNCHANGED << lab_values, next_lab_value_id >>
                  /\ session_state' =
                       IF raised
                       THEN top.ss
                       ELSE ( "patient_created" :> TRUE
                           @@ "current_patient_id" :> Some(id) ) @@ top.ss
                  /\ selector_params' = top.params
                  /\ rerun' = FALSE
                  /\ handler' = None
                  /\ UNCHANGED << exampleVars, callVars, diet_plans, next_plan_id >>
                  /\ page' = ((RenderedPage' \cup { <<"create">> })
                                \ (IF patients = <<>> THEN { <<"selector">> } ELSE {}))
                             \cup (IF raised THEN ErrorMessage("create") ELSE {})

\* "Actualizar Datos del Paciente"; fail: the commit raises
PressUpdate(form, fail, keep) ==
  /\ Idle
  /\ <<"update">> \in page
  /\ LET top == Top(session_state, keep)
         found == PatientById(top.ss.current_patient_id)
     IN  IF top.outcome # "continue"
         THEN RunEndsEarly(top)
         ELSE IF \/ ~top.ss.load_existing_patient
                 \/ FormIncomplete(form)
                 \/ found = None
                 \/ fail
         THEN RunCompletes(top.ss, top.params)
         ELSE LET id  == found[1].id
                  pos == CHOOSE i \in 1..Len(patients) : patients[i].id = id
                  lab == LatestLabValue(id)
              IN  /\ patients' = [patients EXCEPT ![pos] = PatientRow(id, form)]
                  /\ IF ~AnyLabValue(form)
                     THEN UNCHANGED << lab_values, next_lab_value_id >>
                     ELSE IF lab # 0
                     THEN /\ lab_values' =
                               [lab_values EXCEPT
                                  ![lab] = LabValueRow(lab_values[lab].id, id, form)]
                          /\ UNCHANGED next_lab_value_id
                     ELSE /\ lab_values' = Append(lab_values,
                                                  LabValueRow(next_lab_value_id, id, form))
                          /\ next_lab_value_id' = next_lab_value_id + 1
                  /\ session_state' =
                       ( "patient_name"          :> form.name
                      @@ "patient_age"           :> form.age
                      @@ "patient_gender"        :> form.gender
                      @@ "patient_weight"        :> form.weight
                      @@ "patient_height"        :> form.height
                      @@ "patient_health_conditions" :> form.health_conditions
                      @@ "patient_glucose"       :> form.glucose
                      @@ "patient_cholesterol"   :> form.cholesterol
                      @@ "patient_triglycerides" :> form.triglycerides
                      @@ "patient_hemoglobin"    :> form.hemoglobin ) @@ top.ss
                  /\ selector_params' = top.params
                  /\ rerun' = FALSE
                  /\ handler' = None
                  /\ UNCHANGED << exampleVars, callVars, diet_plans, next_patient_id,
                                  next_plan_id >>
                  /\ page' = RenderedPage'

\* "Generar Plan de Alimentación": the run reaches generate_diet_plan_*
PressGenerate(sc, keep) ==
  /\ Idle
  /\ <<"generate">> \in page
  /\ next_plan_id <= MaxPlans
  /\ LET top == Top(session_state, keep)
     IN  IF top.outcome # "continue"
         THEN RunEndsEarly(top)
         ELSE IF ~top.ss.patient_created
         THEN RunCompletes(top.ss, top.params)
         ELSE /\ session_state' = top.ss
              /\ selector_params' = top.params
              /\ handler' = Some([op |-> "generate", special_considerations |-> sc])
              /\ UNCHANGED << exampleVars, callVars, storeVars, rerun, page >>

\* "Regenerar Plan": the run reaches generate_diet_plan_* with
\* f"{special_considerations}\n\nModificaciones solicitadas: {modifications}"
PressRegenerate(sc, modifications, keep) ==
  /\ Idle
  /\ <<"regenerate">> \in page
  /\ LET top == Top(session_state, keep)
     IN  IF top.outcome # "continue"
         THEN RunEndsEarly(top)
         ELSE IF ~top.ss.plan_generated \/ top.ss.current_plan \in {None, Some("")}
                 \/ modifications = <<>>
         THEN RunCompletes(top.ss, top.params)
         ELSE /\ session_state' = top.ss
              /\ selector_params' = top.params
              /\ handler' =
                   Some([op |-> "regenerate",
                         special_considerations |->
                           sc \o <<"\n", "\n", "M", "o", "d", "i", "f", "i", "c", "a",
                                   "c", "i", "o", "n", "e", "s", " ", "s", "o", "l",
                                   "i", "c", "i", "t", "a", "d", "a", "s", ":", " ">>
                              \o modifications])
              /\ UNCHANGED << exampleVars, callVars, storeVars, rerun, page >>

\* generate_diet_plan_*: `relevant_examples = find_relevant_examples(patient,
\* lab_values, special_considerations)`, on the row of the current patient
HandlerCall ==
  /\ handler # None
  /\ PatientById(session_state.current_patient_id) # None
  /\ FindRelevantExamplesRead(PatientById(session_state.current_patient_id)[1],
                              handler[1].special_considerations, DefaultTopK)
  /\ UNCHANGED handler

\* plan_generated, current_plan and current_plan_id after the commit of a
\* new plan
GeneratedKeys(ss, plan_text, id) ==
  ( "plan_generated"  :> TRUE
 @@ "current_plan"    :> Some(plan_text)
 @@ "current_plan_id" :> Some(id) ) @@ ss

\* the rest of the handler after find_relevant_examples has returned: the
\* LLM call and the commit; outcome names what raises
HandlerFinish(plan_text, outcome) ==
  /\ handler # None
  /\ pc \in {"returned", "raised"}
  /\ FrameDropped
  /\ handler' = None
  /\ UNCHANGED << exampleVars, patients, lab_values, next_patient_id,
                  next_lab_value_id, selector_params >>
  /\ LET pos == PlanPosition(session_state.current_plan_id)
         sc  == handler[1].special_considerations
     IN  IF pc # "raised" /\ outcome = "refresh" /\ handler[1].op = "generate"
         THEN \* session.refresh(new_plan) raises after the commit
              /\ diet_plans' = Append(diet_plans,
                                      DietPlanRow(next_plan_id,
                                                  session_state.current_patient_id[1],
                                                  plan_text, sc))
              /\ next_plan_id' = next_plan_id + 1
              /\ UNCHANGED session_state
              /\ rerun' = FALSE
              /\ page' = RenderedPage' \cup ErrorMessage(handler[1].op)
         ELSE IF pc = "raised" \/ outcome # "none"
         THEN \* except Exception: st.error(...), and the script goes on
              /\ UNCHANGED << diet_plans, next_plan_id, session_state >>
              /\ rerun' = FALSE
              /\ page' = RenderedPage' \cup ErrorMessage(handler[1].op)
         ELSE IF handler[1].op = "generate"
         THEN /\ diet_plans' =
                   Append(diet_plans,
                          DietPlanRow(next_plan_id, session_state.current_patient_id[1],
                                      plan_text, sc))
              /\ next_plan_id' = next_plan_id + 1
              /\ session_state' = GeneratedKeys(session_state, plan_text, next_plan_id)
              /\ rerun' = TRUE
              /\ page' = {}
         ELSE IF pos # 0
         THEN /\ diet_plans' =
                   [diet_plans EXCEPT ![pos] =
                      [@ EXCEPT !.plan_details = plan_text,
                                !.special_considerations = sc]]
              /\ UNCHANGED next_plan_id
              /\ session_state' = ("current_plan" :> Some(plan_text)) @@ session_state
              /\ rerun' = TRUE
              /\ page' = {}
         ELSE \* "No se encontró el plan para actualizar"
              /\ UNCHANGED << diet_plans, next_plan_id, session_state >>
              /\ rerun' = FALSE
              /\ page' = RenderedPage'

\* "Cargar para Editar" of a past plan
PressLoadPlan(id, keep) ==
  /\ Idle
  /\ <<"load_plan", id>> \in page
  /\ LET top == Top(session_state, keep)
         pos == PlanPosition(Some(id))
     IN  IF top.outcome # "continue"
         THEN RunEndsEarly(top)
         ELSE IF \/ ~top.ss.patient_created
                 \/ top.ss.current_patient_id = None
                 \/ pos = 0
                 \/ Some(diet_plans[pos].patient_id) # top.ss.current_patient_id
         THEN \* the button is not drawn
              RunCompletes(top.ss, top.params)
         ELSE /\ session_state' = ( "current_plan"    :> Some(diet_plans[pos].plan_details)
                                 @@ "current_plan_id" :> Some(id)
                                 @@ "plan_generated"  :> TRUE ) @@ top.ss
              /\ selector_params' = top.params
              /\ rerun' = TRUE
              /\ page' = {}
              /\ UNCHANGED << exampleVars, callVars, storeVars, handler >>

\* "Eliminar Plan" of a past plan; fail: the commit raises
PressDeletePlan(id, fail, keep) ==
  /\ Idle
  /\ <<"delete_plan", id>> \in page
  /\ LET top == Top(session_state, keep)
         pos == PlanPosition(Some(id))
     IN  IF top.outcome # "continue"
         THEN RunEndsEarly(top)
         ELSE IF \/ ~top.ss.patient_created
                 \/ top.ss.current_patient_id = None
                 \/ pos = 0
                 \/ Some(diet_plans[pos].patient_id) # top.ss.current_patient_id
                 \/ fail
         THEN RunCompletes(top.ss, top.params)
         ELSE /\ diet_plans' = RemoveAt(diet_plans, pos)
              /\ session_state' = top.ss
              /\ selector_params' = top.params
              /\ rerun' = TRUE
              /\ page' = {}
              /\ UNCHANGED << exampleVars, callVars, patients, lab_values,
                              next_patient_id, next_lab_value_id, next_plan_id,
                              handler >>

\* "Iniciar Nuevo Paciente"
PressReset(keep) ==
  /\ Idle
  /\ <<"reset">> \in page
  /\ LET top == Top(session_state, keep)
     IN  IF top.outcome # "continue"
         THEN RunEndsEarly(top)
         ELSE /\ session_state' = ResetForm(top.ss)
              /\ selector_params' = top.params
              /\ rerun' = TRUE
              /\ page' = {}
              /\ UNCHANGED << exampleVars, callVars, storeVars, handler >>

\* the outcomes of drawing the selector that Streamlit releases can produce:
\* whether the widget keeps its value matters only when it is drawn with the
\* options it had and another index
KeepChoices ==
  LET ss      == InitSessionState(session_state)
      options == PatientOptions
  IN  IF /\ patients # <<>>
         /\ selector_params # None
         /\ selector_params[1].options = options
         /\ selector_params[1].index # DefaultIndex(ss, options)
      THEN BOOLEAN
      ELSE {TRUE}

NextApp ==
  \/ \E keep \in KeepChoices : ScriptRun(keep)
  \/ \E i \in 0..MaxPatients, keep \in KeepChoices :
       /\ selector_params # None
       /\ i + 1 <= Len(selector_params[1].options)
       /\ SelectPatient(selector_params[1].options[i + 1], keep)
  \/ \E keep \in KeepChoices : PressAddExample(keep)
  \/ \E form \in AppExampleForms, keep \in KeepChoices : SaveExample(form, keep)
  \/ CancelExample
  \/ \E form \in AppPatientForms, fail \in {"none", "patient"},
        keep \in KeepChoices : PressCreate(form, fail, keep)
  \/ \E form \in AppPatientForms, fail \in BOOLEAN, keep \in KeepChoices :
       PressUpdate(form, fail, keep)
  \/ \E sc \in AppSpecialConsiderations, keep \in KeepChoices : PressGenerate(sc, keep)
  \/ \E sc \in AppSpecialConsiderations, modifications \in AppModifications,
        keep \in KeepChoices : PressRegenerate(sc, modifications, keep)
  \/ HandlerCall
  \/ FindRelevantExamplesScore
  \/ \E plan_text \in PlanTexts, outcome \in {"none", "llm", "store"} :
       HandlerFinish(plan_text, outcome)
  \/ \E id \in 1..MaxPlans, keep \in KeepChoices : PressLoadPlan(id, keep)
  \/ \E id \in 1..MaxPlans, fail \in BOOLEAN, keep \in KeepChoices :
       PressDeletePlan(id, fail, keep)
  \/ \E keep \in KeepChoices : PressReset(keep)

SpecApp == Init /\ [][NextApp]_vars

\* the session with the exceptions the store can raise after a commit has
\* succeeded: session.refresh(...) of the new row, and the second commit of
\* the create handler
NextAppFaults ==
  \/ NextApp
  \/ \E form \in AppPatientForms, fail \in {"refresh", "lab_value"},
        keep \in KeepChoices : PressCreate(form, fail, keep)
  \/ \E plan_text \in PlanTexts :
       /\ handler # None
       /\ handler[1].op = "generate"
       /\ HandlerFinish(plan_text, "refresh")

SpecAppFaults == Init /\ [][NextAppFaults]_vars

\* ------------------------------------------------------------------------
\* Properties
\* ------------------------------------------------------------------------
kw_diabetes == <<"d", "i", "a", "b", "e", "t", "e", "s">>

\* C1: when find_relevant_examples has returned, every example e it read was
\* given the score 3 * (entries t of e.tags with lower(t) a keyword)
\* + 2 * (keywords that are a substring of lower(e.patient_profile))
\* + 1 * (keywords that are a substring of lower(e.plan_content)): an example
\* with a positive sum is in scored_examples once, with that sum, and an
\* example whose sum is 0 is not in scored_examples.
C1_ScoreIsWeightedSum ==
  pc = "returned" =>
    \A p \in 1..Len(all_examples) :
      LET e   == all_examples[p]
          sum == 3 * Cardinality({i \in 1..Len(e.tags) :
                                    Lower(e.tags[i]) \in search_keywords})
                 + 2 * Cardinality({k \in search_keywords :
                                      IsSubstring(k, Lower(e.patient_profile))})
                 + 1 * Cardinality({k \in search_keywords :
                                      IsSubstring(k, Lower(e.plan_content))})
          at  == {i \in 1..Len(scored_examples) : scored_examples[i].example = e}
      IN  IF sum > 0
          THEN /\ Cardinality(at) = 1
               /\ \A i \in at : scored_examples[i].score = sum
          ELSE at = {}

\* the example of the spec: tags ["diabetes"], profile "patient has diabetes",
\* plan "avoid diabetes triggers", and the keyword "diabetes": score 6
C1_Witness ==
  /\ pc = "returned"
  /\ kw_diabetes \in search_keywords
  /\ \E i \in 1..Len(scored_examples) :
       /\ scored_examples[i].score = 6
       /\ scored_examples[i].example.tags = <<kw_diabetes>>
       /\ IsSubstring(kw_diabetes, scored_examples[i].example.patient_profile)
       /\ IsSubstring(kw_diabetes, scored_examples[i].example.plan_content)

\* C2: the returned list is ordered by non-increasing score, and every
\* returned example scores at least as much as every example that was read
\* and not returned.
C2_TopKByScore ==
  pc = "returned" =>
    /\ \A i, j \in 1..Len(result) :
         i < j => ExampleScore(result[i], search_keywords)
                    >= ExampleScore(result[j], search_keywords)
    /\ \A r \in Range(result) :
         \A e \in Range(all_examples) \ Range(result) :
           ExampleScore(r, search_keywords) >= ExampleScore(e, search_keywords)

\* scores 6 and 3 with K = 1: only the score-6 example is returned, although
\* the score-3 example was read first
C2_Witness ==
  /\ pc = "returned"
  /\ top_k = 1
  /\ Len(all_examples) = 2
  /\ ExampleScore(all_examples[1], search_keywords) = 3
  /\ ExampleScore(all_examples[2], search_keywords) = 6
  /\ result = <<all_examples[2]>>

\* C3: the number of examples returned is min(K, number of examples read
\* whose score is > 0).
C3_ResultLength ==
  pc = "returned" =>
    LET scoring == Cardinality({p \in 1..Len(all_examples) :
                                  ExampleScore(all_examples[p], search_keywords) > 0})
    IN  Len(result) = IF top_k < scoring THEN top_k ELSE scoring

\* K exceeds the number of scoring examples and all of them are returned
C3_Witness ==
  /\ pc = "returned"
  /\ top_k = 2
  /\ Len(all_examples) = 1
  /\ Len(result) = 1

\* C4: every returned example has a score >= 1.
C4_NoZeroScoreReturned ==
  pc = "returned" =>
    \A i \in 1..Len(result) : ExampleScore(result[i], search_keywords) >= 1

\* fewer than K examples score above 0: the zero-score example that was read
\* does not fill the free slot
C4_Witness ==
  /\ pc = "returned"
  /\ Len(result) = 1
  /\ top_k = 2
  /\ \E e \in Range(all_examples) : ExampleScore(e, search_keywords) = 0

\* C5: of two examples with equal nonzero scores, the one read first comes
\* first in the returned list, and the one read later is returned only if
\* the one read first is returned too.
C5_TiesInCorpusOrder ==
  pc = "returned" =>
    \A p, q \in 1..Len(all_examples) :
      ( /\ p < q
        /\ ExampleScore(all_examples[p], search_keywords) > 0
        /\ ExampleScore(all_examples[p], search_keywords)
             = ExampleScore(all_examples[q], search_keywords) )
      => LET ip == {i \in 1..Len(result) : result[i].id = all_examples[p].id}
             iq == {i \in 1..Len(result) : result[i].id = all_examples[q].id}
         IN  /\ iq # {} => ip # {}
             /\ \A i \in ip, j \in iq : i < j

\* two examples tie and only one fits within K: the first-seen one is returned
C5_Witness ==
  /\ pc = "returned"
  /\ top_k = 1
  /\ Len(all_examples) >= 2
  /\ ExampleScore(all_examples[1], search_keywords) > 0
  /\ ExampleScore(all_examples[1], search_keywords)
       = ExampleScore(all_examples[2], search_keywords)
  /\ \A p \in 1..Len(all_examples) :
       ExampleScore(all_examples[p], search_keywords)
         <= ExampleScore(all_examples[1], search_keywords)
  /\ result = <<all_examples[1]>>

\* C6: when no example plan is stored, the call returns the empty list and
\* does not raise, whatever the patient (a row with a NULL bmi included), the
\* free text and K.
C6_EmptyCorpus ==
  (pc \in {"returned", "raised"} /\ all_examples = <<>>) =>
    (pc = "returned" /\ result = <<>>)

\* a call for a patient row without a bmi, on an empty table, has returned
C6_Witness ==
  /\ pc = "returned"
  /\ all_examples = <<>>
  /\ patient.bmi = None
  /\ top_k > 0
  /\ result = <<>>

\* C7: when examples were read and none has a tag whose lower() is a keyword
\* nor a profile or a plan body that contains a keyword, the call returns the
\* empty list.
C7_NoMatchEmptyResult ==
  ( /\ pc \in {"returned", "raised"}
    /\ all_examples # <<>>
    /\ \A e \in Range(all_examples) :
         /\ \A i \in 1..Len(e.tags) : Lower(e.tags[i]) \notin search_keywords
         /\ \A k \in search_keywords :
              /\ ~ IsSubstring(k, Lower(e.patient_profile))
              /\ ~ IsSubstring(k, Lower(e.plan_content)) )
  => (pc = "returned" /\ result = <<>>)

\* several examples were read, K is at least 1, nothing matches
C7_Witness ==
  /\ pc = "returned"
  /\ Len(all_examples) >= 2
  /\ top_k >= 1
  /\ search_keywords # {}
  /\ \A e \in Range(all_examples) : ExampleScore(e, search_keywords) = 0
  /\ result = <<>>

\* C8: the age step adds the keywords of exactly one bracket: below 18
\* "adolescente" and "joven", from 18 and below 30 "adulto joven", from 30
\* and below 60 "adulto", from 60 "adulto mayor" and "tercera edad".  The
\* keyword set holds the keywords of that bracket, and holds a keyword of
\* another bracket only if a condition, the free text or the BMI step put it
\* there.
C8_AgeBracket ==
  (pc = "returned" /\ all_examples # <<>>) =>
    LET age      == patient.age
        expected == IF age < 18 THEN {kw_adolescente, kw_joven}
                    ELSE IF 18 <= age /\ age < 30 THEN {kw_adulto_joven}
                    ELSE IF 30 <= age /\ age < 60 THEN {kw_adulto}
                    ELSE {kw_adulto_mayor, kw_tercera_edad}
        brackets == {kw_adolescente, kw_joven, kw_adulto_joven, kw_adulto,
                     kw_adulto_mayor, kw_tercera_edad}
        others   == ConditionKeywords(patient)
                    \cup SpecialKeywords(special_considerations)
                    \cup BmiKeywords(patient.bmi[1])
    IN  /\ expected \subseteq search_keywords
        /\ (search_keywords \cap brackets) \ others \subseteq expected

\* age 17: "adolescente" and "joven", not "adulto mayor"
C8_Witness ==
  /\ pc = "returned"
  /\ all_examples # <<>>
  /\ patient.age = 17
  /\ kw_adolescente \in search_keywords
  /\ kw_joven \in search_keywords
  /\ kw_adulto_mayor \notin search_keywords
  /\ kw_adulto \notin search_keywords

\* C9: the BMI step adds exactly one keyword: below 18.5 "bajo peso", from
\* 18.5 and below 25 "peso normal", from 25 and below 30 "sobrepeso", from 30
\* "obesidad".  The keyword set holds that keyword, and holds another BMI
\* keyword only if a condition, the free text or the age step put it there.
C9_BmiBracket ==
  (pc = "returned" /\ all_examples # <<>>) =>
    LET bmi      == patient.bmi[1]
        expected == IF bmi < 1850 THEN kw_bajo_peso
                    ELSE IF 1850 <= bmi /\ bmi < 2500 THEN kw_peso_normal
                    ELSE IF 2500 <= bmi /\ bmi < 3000 THEN kw_sobrepeso
                    ELSE kw_obesidad
        brackets == {kw_bajo_peso, kw_peso_normal, kw_sobrepeso, kw_obesidad}
        others   == ConditionKeywords(patient)
                    \cup SpecialKeywords(special_considerations)
                    \cup AgeKeywords(patient.age)
    IN  /\ expected \in search_keywords
        /\ (search_keywords \cap brackets) \ others \subseteq {expected}

\* a BMI of exactly 18.5 is "peso normal" and not "bajo peso"
C9_Witness ==
  /\ pc = "returned"
  /\ all_examples # <<>>
  /\ patient.bmi = Some(1850)
  /\ kw_peso_normal \in search_keywords
  /\ kw_bajo_peso \notin search_keywords

\* C10: a call for a patient whose bmi is absent completes without an
\* error, and when the extractor ran (examples were read) the keyword set
\* holds "bajo peso".
C10_AbsentBmiIsUnderweight ==
  (pc \in {"returned", "raised"} /\ patient.bmi = None) =>
    /\ pc = "returned"
    /\ all_examples # <<>> => kw_bajo_peso \in search_keywords

kw_diabetes_tipo_2 ==
  <<"d", "i", "a", "b", "e", "t", "e", "s", " ", "t", "i", "p", "o", " ", "2">>
kw_tipo == <<"t", "i", "p", "o">>
kw_sin  == <<"s", "i", "n">>
kw_soya == <<"s", "o", "y", "a">>

\* C11: a call of find_relevant_examples on a stored corpus never raises on
\* the patient's conditions, and when it has returned, the keyword set is
\* exactly: one keyword lower(trim(c)) for each health condition c of the
\* patient, whole, together with what the special considerations, the age
\* and the BMI contribute.  No word of a condition is a keyword on its own
\* account, and a patient without conditions contributes none.
C11_ConditionsAddedWhole ==
  /\ pc # "raised"
  /\ (pc = "returned" /\ all_examples # <<>>) =>
       LET hc == patient.health_conditions
       IN  search_keywords =
             {Lower(Strip(hc[i])) : i \in 1..Len(hc)}
             \cup SpecialKeywords(special_considerations)
             \cup AgeKeywords(patient.age)
             \cup BmiKeywords(patient.bmi[1])

\* a call has returned for the patient with the conditions "Diabetes Tipo 2"
\* and "Obesidad": "diabetes tipo 2" is a keyword, "tipo" is not
C11_Witness ==
  /\ pc = "returned"
  /\ all_examples # <<>>
  /\ \E i \in 1..Len(patient.health_conditions) :
       Lower(patient.health_conditions[i]) = kw_diabetes_tipo_2
  /\ kw_diabetes_tipo_2 \in search_keywords
  /\ kw_tipo \notin search_keywords
  /\ kw_diabetes \notin search_keywords

\* C12: when find_relevant_examples has returned, the keyword set is exactly:
\* the whitespace-separated tokens of the lower-cased special considerations
\* that are longer than 3 characters, together with what the conditions, the
\* age and the BMI contribute.  A token of 3 characters or fewer is not added,
\* and an empty text adds nothing.
C12_SpecialTokensLongerThanThree ==
  (pc = "returned" /\ all_examples # <<>>) =>
    LET tokens == Range(SplitWhitespace(Lower(special_considerations)))
    IN  search_keywords =
          {w \in tokens : Len(w) > 3}
          \cup ConditionKeywords(patient)
          \cup AgeKeywords(patient.age)
          \cup BmiKeywords(patient.bmi[1])

\* a call has returned for "Sin Soya vegano": "soya" (4 characters) is a
\* keyword, "sin" (3 characters) is not
C12_Witness ==
  /\ pc = "returned"
  /\ all_examples # <<>>
  /\ special_considerations # <<>>
  /\ kw_soya \in search_keywords
  /\ kw_sin \notin search_keywords

C15_ScoredOnSnapshot ==
  pc = "returned" =>
    /\ \A i \in 1..Len(result) :
         /\ \E j \in 1..Len(all_examples) : all_examples[j] = result[i]
         /\ ExampleScore(result[i], search_keywords) > 0
    /\ \A i, j \in 1..Len(result) :
         i < j => ExampleScore(result[i], search_keywords)
                    >= ExampleScore(result[j], search_keywords)
    /\ \A j \in 1..Len(all_examples) :
         (\A i \in 1..Len(result) : result[i] # all_examples[j]) =>
           \/ ExampleScore(all_examples[j], search_keywords) = 0
           \/ /\ Len(result) = top_k
              /\ \A i \in 1..Len(result) :
                   ExampleScore(result[i], search_keywords)
                     >= ExampleScore(all_examples[j], search_keywords)

\* a call read one row, a matching row was added by another session before
\* the scoring, and the call returned the one row it had read
C15_Witness ==
  /\ pc = "returned"
  /\ top_k = 2
  /\ Len(all_examples) = 1
  /\ Len(example_plans) = 2
  /\ ExampleScore(example_plans[2], search_keywords) > 0
  /\ result = all_examples

\* C16: the keyword set of find_relevant_examples never contains the empty
\* string, for every patient row the patient form stores and every special
\* considerations text.
C16_NoEmptyKeyword ==
  <<>> \notin search_keywords

\* C14: the steps of a call of find_relevant_examples (the read of the table,
\* and the scoring up to the return) leave the stored example plans,
\* patients, lab values and diet plans and the session state as they were.
C14_CallLeavesStoresAndSession ==
  [][(pc # pc' /\ pc' # "idle") =>
       UNCHANGED << example_plans, patients, lab_values, diet_plans,
                    session_state >>]_vars

\* a call made by a button handler has returned while examples, patients,
\* lab values and a diet plan are stored and a plan is shown in the session
C14_Witness ==
  /\ pc = "returned"
  /\ handler # None
  /\ example_plans # <<>>
  /\ patients # <<>>
  /\ lab_values # <<>>
  /\ diet_plans # <<>>
  /\ session_state.plan_generated

\* C17: a step that runs reset_form leaves a session state which the
\* initialisation block completes to the initial one: patient_created,
\* plan_generated and load_existing_patient False, current_patient_id,
\* current_plan and current_plan_id None, the ten patient_* keys absent.
\* The other keys are left alone (show_add_example keeps its value, the key
\* of the selector stays), and so is every stored record.
C17_ResetRestoresInitialSession ==
  [][("patient_created" \in DOMAIN session_state
      /\ "patient_created" \notin DOMAIN session_state') =>
       LET after == InitSessionState(session_state')
       IN  /\ after.patient_created = FALSE
           /\ after.plan_generated = FALSE
           /\ after.load_existing_patient = FALSE
           /\ after.current_patient_id = None
           /\ after.current_plan = None
           /\ after.current_plan_id = None
           /\ DOMAIN after \cap FormKeys = {}
           /\ after.show_add_example
                = InitSessionState(session_state).show_add_example
           /\ "patient_selector" \in DOMAIN session_state
                => "patient_selector" \in DOMAIN after
           /\ DOMAIN after \subseteq InitKeys \cup {"patient_selector"}
           /\ UNCHANGED << example_plans, patients, lab_values, diet_plans >>]_vars

\* reset_form has run in a session that showed the add-example form and had
\* a patient with a diet plan stored
C17_Witness ==
  /\ rerun
  /\ "patient_created" \notin DOMAIN session_state
  /\ "patient_selector" \in DOMAIN session_state
  /\ "show_add_example" \in DOMAIN session_state
  /\ session_state.show_add_example
  /\ diet_plans # <<>>

\* C18: the script run that follows reset_form (after "Iniciar Nuevo
\* Paciente", or after the new-patient option was chosen) does not load a
\* patient: it leaves load_existing_patient and patient_created False and
\* current_patient_id None.  A run that loads a patient instead is followed
\* by one run that settles with that patient loaded.
C18_ResetSettlesInNewPatientMode ==
  [][(rerun /\ "patient_created" \notin DOMAIN session_state) =>
       LET after == InitSessionState(session_state')
       IN  /\ after.load_existing_patient = FALSE
           /\ after.patient_created = FALSE
           /\ after.current_patient_id = None]_vars

\* C19: in every state of the session, with absent keys read as their
\* initial values, patient_created is True exactly when current_patient_id is
\* not None, and load_existing_patient is True only when patient_created is.
C19_FlagsConsistent ==
  LET ss == InitSessionState(session_state)
  IN  /\ ss.patient_created <=> (ss.current_patient_id # None)
      /\ ss.load_existing_patient => ss.patient_created

\* a script run has ended with a patient loaded from the selector and a plan
\* of that patient shown
C19_Witness ==
  /\ ~rerun
  /\ handler = None
  /\ DOMAIN session_state # {}
  /\ session_state.load_existing_patient
  /\ session_state.patient_created
  /\ session_state.current_patient_id # None
  /\ session_state.plan_generated

\* C20: whenever plan_generated is True, a diet plan with the id
\* current_plan_id is stored and its patient_id is current_patient_id.
C20_CurrentPlanOfCurrentPatient ==
  LET ss == InitSessionState(session_state)
  IN  ss.plan_generated =>
        \E i \in 1..Len(diet_plans) :
          /\ Some(diet_plans[i].id) = ss.current_plan_id
          /\ Some(diet_plans[i].patient_id) = ss.current_patient_id

\* C21: the step that ends the handler of "Generar Plan de Alimentación"
\* either ends in the error branch (the LLM call or the commit raised), and
\* then the stored diet plans and plan_generated, current_plan and
\* current_plan_id are what they were before; or it succeeds, and then
\* exactly one diet plan is appended, for the current patient and with a new
\* id, and the three session values are True, its text and its id.
C21_GenerateAllOrNothing ==
  [][(handler # None /\ handler[1].op = "generate" /\ handler' = None) =>
       IF <<"error_generate">> \in page'
       THEN /\ diet_plans' = diet_plans
            /\ session_state'.plan_generated = session_state.plan_generated
            /\ session_state'.current_plan = session_state.current_plan
            /\ session_state'.current_plan_id = session_state.current_plan_id
       ELSE /\ Len(diet_plans') = Len(diet_plans) + 1
            /\ \A i \in 1..Len(diet_plans) : diet_plans'[i] = diet_plans[i]
            /\ LET new_plan == diet_plans'[Len(diet_plans')]
               IN  /\ \A i \in 1..Len(diet_plans) : diet_plans[i].id # new_plan.id
                   /\ Some(new_plan.patient_id) = session_state.current_patient_id
                   /\ session_state'.plan_generated = TRUE
                   /\ session_state'.current_plan = Some(new_plan.plan_details)
                   /\ session_state'.current_plan_id = Some(new_plan.id)]_vars

\* C22: a press of "Crear Paciente y Guardar Datos" that ends in the error
\* branch leaves the stored patients as they were, and a press that stores a
\* patient record sets patient_created to True and current_patient_id to the
\* id of that record.
C22_CreateAllOrNothing ==
  [][/\ <<"error_create">> \in page' => patients' = patients
     /\ Len(patients') > Len(patients) =>
          /\ session_state'.patient_created = TRUE
          /\ session_state'.current_patient_id
               = Some(patients'[Len(patients')].id)]_vars

\* C23: the chain of script runs started by st.rerun() is finite. A pending
\* rerun has rank 2 when reset_form() has just emptied the session and rank
\* 1 otherwise; in every reachable state with a rerun pending, the run that
\* follows (whatever value the selector then shows) either ends without
\* st.rerun() or leaves a session of lower rank. So after a user interaction
\* (selector, reset, generate, regenerate, load plan, delete plan) at most
\* two more runs follow before a run ends without requesting a rerun.
C23_RerunChainIsFinite ==
  rerun =>
    \A keep \in BOOLEAN :
      LET rank(ss) == IF "patient_created" \notin DOMAIN ss THEN 2 ELSE 1
          top == Top(session_state, keep)
      IN  top.outcome = "rerun" => rank(top.ss) < rank(session_state)

\* the longest chain: the run after reset_form() has found a patient in
\* the selector, loaded it and asked for one more run
C23_Witness ==
  /\ rerun
  /\ session_state # << >>
  /\ "patient_created" \in DOMAIN session_state
  /\ session_state.load_existing_patient
  /\ session_state.plan_generated = FALSE
  /\ diet_plans # <<>>

\* C24: a step that stores a new patient record starts with
\* load_existing_patient False and patient_created False, stores exactly one
\* record and ends with patient_created True (so a second record needs a
\* reset in between), and a step that
\* changes a stored patient record keeps the number of records, changes only
\* the record of the loaded current patient, and leaves the lab values of
\* the other patients as they are.
C24_CreateOncePerReset ==
  [][/\ Len(patients') > Len(patients) =>
          /\ Len(patients') = Len(patients) + 1
          /\ ~Get(session_state, "load_existing_patient", FALSE)
          /\ ~Get(session_state, "patient_created", FALSE)
          /\ session_state'.patient_created
     /\ Len(patients') >= Len(patients)
     /\ \A i \in 1..Len(patients) :
          patients'[i] # patients[i] =>
            /\ Len(patients') = Len(patients)
            /\ patients'[i].id = patients[i].id
            /\ session_state'.load_existing_patient
            /\ session_state'.current_patient_id = Some(patients[i].id)
            /\ \A j \in 1..Len(lab_values) :
                 lab_values[j].patient_id # patients[i].id =>
                   lab_values'[j] = lab_values[j]]_vars
====
